---- MODULE Spec2Model ----
(***************************************************************************)
(* Model of HistoryService (projects/ngx-history/src/lib/history.service.ts)*)
(* the navigation-history state machine: the bounded path stack, the       *)
(* current index, the internal/external navigation flags, the single       *)
(* navigationPromise slot and the two listeners (onUrlChange, popstate).   *)
(*                                                                         *)
(* Indices are 0-based as in the source; paths is a TLA+ sequence, so the  *)
(* entry at source index i is paths[i + 1].                                *)
(*                                                                         *)
(* The Router (Navigator) and Location (LocationObserver) are external:    *)
(* a Navigator call settles with true, false or a rejection; a successful  *)
(* call moves the observed location and queues the location notification  *)
(* it causes; notifications are delivered in order, at any later moment.   *)
(***************************************************************************)
EXTENDS Integers, Sequences, FiniteSets, TLC

\* ------------------------------------------------------------------ bounds
MaxHistoryLength == 2   \* config.maxHistoryLength of the modelled instance
MaxCalls == 2           \* API calls in a run
MaxMoves == 2           \* events other agents cause in a run (location changes, popstate, repeats)
MaxPending == 1         \* location notifications produced and not yet delivered
RaceCalls == 4          \* index-navigation calls in a run of SpecRace
RaceMoves == 1          \* location changes by other agents in a run of SpecRace
LiveCalls == 2          \* API calls in a run of FairSpec
LiveMoves == 1          \* location changes by other agents in a run of FairSpec
TripCalls == 3          \* index-navigation calls in a run of SpecTrip
TripMoves == 2          \* location changes by other agents in a run of SpecTrip

\* --------------------------------------------------------------- constants
DefaultRoute == "/"
Paths == {"/", "/a", "/b"}
NoPath == ""            \* location.path() of the root / an omitted argument
Undefined == "undefined"
InitLocations == {NoPath, "/a"}
InitArgs == {NoPath, "/b"}   \* initialize() and initialize("/b")
Slots == 1..3           \* names of the activations that can be alive together
NoCall == 0
Outcomes == {"true", "false", "throw"}

VARIABLES
  autoInitialize,        \* config.autoInitialize
  paths,                 \* _paths
  currentIndex,          \* _currentIndex
  isNavigating,          \* _isNavigating
  isInternalNavigation,  \* isInternalNavigation
  previousPath,          \* previousPath
  isInitialized,         \* isInitialized
  navigationPromise,     \* navigationPromise: NoCall, or the activation whose performNavigation promise it holds
  currentState,          \* _navigationState$.value
  destroyed,             \* ngOnDestroy has run
  location,              \* location.path()
  pending,               \* location notifications produced and not yet delivered
  calls,                 \* the activations of the async API methods
  callsLeft,             \* API calls the run may still make
  movesLeft,             \* events other agents may still cause
  last,                  \* history variable: the step just taken and what it emitted
  tracking,              \* history variable: only external navigations happened since construction
  observed,              \* history variable: the external navigations observed while tracking
  trip                   \* history variable: a goBack() then goForward() round trip and where it started

vars == <<autoInitialize, paths, currentIndex, isNavigating, isInternalNavigation,
          previousPath, isInitialized, navigationPromise, currentState, destroyed,
          location, pending, calls, callsLeft, movesLeft, last, tracking, observed, trip>>

\* ----------------------------------------------------------------- helpers
Max2(a, b) == IF a > b THEN a ELSE b
Min2(a, b) == IF a < b THEN a ELSE b

LastOf(s) == s[Len(s)]

\* Array.prototype.includes
Includes(ps, p) == \E i \in 1..Len(ps) : ps[i] = p

\* a variant of the lookup that answers position 0 for an absent path
IndexOf_OrFirst(ps, p) ==
  IF Includes(ps, p)
  THEN (CHOOSE i \in 1..Len(ps) : ps[i] = p /\ \A j \in 1..(i - 1) : ps[j] # p) - 1
  ELSE 0

\* a variant of the lookup that answers the highest position
IndexOf_Last(ps, p) ==
  IF Includes(ps, p)
  THEN (CHOOSE i \in 1..Len(ps) : ps[i] = p /\ \A j \in (i + 1)..Len(ps) : ps[j] # p) - 1
  ELSE -1

\* Array.prototype.indexOf: the lowest 0-based position, -1 when absent
IndexOf(ps, p) ==
  IF Includes(ps, p)
  THEN (CHOOSE i \in 1..Len(ps) : ps[i] = p /\ \A j \in 1..(i - 1) : ps[j] # p) - 1
  ELSE -1

\* get currentPath(): location.path() || defaultRoute
CurrentPathOf(loc) == IF loc = NoPath THEN DefaultRoute ELSE loc

\* get canGoBack / get canGoForward
CanGoBack(ci) == ci > 0
CanGoForward(ps, ci) == ci < Len(ps) - 1

\* a variant of updateNavigationState that reports the start of the stack as the
\* current position
MkState_AtStart(ps, ci, nav, loc) ==
  [paths |-> ps,
   currentIndex |-> 0,
   canGoBack |-> FALSE,
   canGoForward |-> CanGoForward(ps, 0),
   currentPath |-> CurrentPathOf(loc),
   historyLength |-> Len(ps),
   isNavigating |-> nav]

\* the snapshot updateNavigationState builds
MkState(ps, ci, nav, loc) ==
  [paths |-> ps,
   currentIndex |-> ci,
   canGoBack |-> CanGoBack(ci),
   canGoForward |-> CanGoForward(ps, ci),
   currentPath |-> CurrentPathOf(loc),
   historyLength |-> Len(ps),
   isNavigating |-> nav]

createInitialState ==
  [paths |-> <<>>,
   currentIndex |-> 0,
   canGoBack |-> FALSE,
   canGoForward |-> FALSE,
   currentPath |-> DefaultRoute,
   historyLength |-> 0,
   isNavigating |-> FALSE]

\* _navigationState$.next(state): a BehaviorSubject stores the value also after it has
\* completed (what reaches the subscribers is SubjectNext)
NextState(dead, old, new) == new

\* a variant in which a completed subject still delivers
SubjectNext_Always(stopped, x, nothing) == x

\* what a subject's next(x) delivers to the subscribers: nothing once it has completed
SubjectNext(stopped, x, nothing) == IF stopped THEN nothing ELSE x

\* a variant of addToHistory without the memory management
addToHistory_NoEviction(ps, ci, p) == [paths |-> Append(ps, p), currentIndex |-> ci]

\* an eviction that drops the newest entries instead of the oldest
addToHistory_DropNewest(ps, ci, p) ==
  LET pushed == Append(ps, p)
  IN IF Len(pushed) > MaxHistoryLength
     THEN [paths |-> SubSeq(pushed, 1, MaxHistoryLength),
           currentIndex |-> Max2(0, ci - (Len(pushed) - MaxHistoryLength))]
     ELSE [paths |-> pushed, currentIndex |-> ci]

\* addToHistory: push, then drop from the front down to maxHistoryLength
addToHistory(ps, ci, p) ==
  LET pushed == Append(ps, p)
      removedCount == Len(pushed) - MaxHistoryLength
  IN IF Len(pushed) > MaxHistoryLength
     THEN [paths |-> SubSeq(pushed, removedCount + 1, Len(pushed)),
           currentIndex |-> Max2(0, ci - removedCount)]
     ELSE [paths |-> pushed, currentIndex |-> ci]

\* a variant of handleExternalNavigation pointing one past the end
handleExternalNavigation_PastEnd(ps, ci, p) ==
  LET kept == IF ci < Len(ps) - 1 THEN SubSeq(ps, 1, ci + 1) ELSE ps
      added == Append(kept, p)
  IN [paths |-> IF Len(added) > MaxHistoryLength
                THEN SubSeq(added, Len(added) - MaxHistoryLength + 1, Len(added))
                ELSE added,
      currentIndex |-> Min2(Len(added), MaxHistoryLength)]

\* a variant of handleExternalNavigation that keeps the forward entries
handleExternalNavigation_KeepForward(ps, ci, p) ==
  LET added == addToHistory(ps, ci, p)
  IN [paths |-> added.paths, currentIndex |-> Len(added.paths) - 1]

\* handleExternalNavigation: drop the forward entries, add, point at the end
handleExternalNavigation(ps, ci, p) ==
  LET kept == IF ci < Len(ps) - 1 THEN SubSeq(ps, 1, ci + 1) ELSE ps
      added == addToHistory(kept, ci, p)
  IN [paths |-> added.paths, currentIndex |-> Len(added.paths) - 1]

\* a construction that seeds nothing
Construct_Unseeded(auto, loc) ==
  [paths |-> <<>>, currentIndex |-> 0, isInitialized |-> FALSE, state |-> createInitialState]

\* the constructor: createInitialState, then initializeWithCurrentRoute when configured
Construct(auto, loc) ==
  IF auto /\ ~Includes(<<>>, CurrentPathOf(loc))
  THEN LET added == addToHistory(<<>>, 0, CurrentPathOf(loc))
       IN [paths |-> added.paths, currentIndex |-> added.currentIndex,
           isInitialized |-> TRUE,
           state |-> MkState(added.paths, added.currentIndex, FALSE, loc)]
  ELSE [paths |-> <<>>, currentIndex |-> 0, isInitialized |-> FALSE,
        state |-> createInitialState]

\* ------------------------------------------------------------ activations
\* an activation: free; waiting on the promise of waitOn with its index; ready (that
\* promise has settled); navigating (its Navigator call for path is outstanding);
\* settled (the Navigator call ended with outcome, the continuation has not run)
FreeCall ==
  [kind |-> "none", pc |-> "free", idx |-> -1, path |-> NoPath, waitOn |-> NoCall,
   outcome |-> "none", errs |-> <<>>]

\* what the history variable last records of a step: the operation, the path it
\* concerns, for a notification its cause and how the listener handled it, the error
\* types passed to emitError and the number of updateNavigationState calls in the step,
\* and, when a call returns in the step, its boolean and all the errors it emitted;
\* cut is the number of forward entries a notification made the service remove;
\* stateOut and errorOut are the states (their number) and the errors that reached
\* the subscribers of navigationState$ and navigationError$
Step(op, p, cause, handled, errs, n) ==
  [op |-> op, path |-> p, cause |-> cause, handled |-> handled,
   errors |-> errs, emits |-> n, result |-> "none", callErrors |-> <<>>, cut |-> 0,
   stateOut |-> SubjectNext(destroyed, n, 0),
   errorOut |-> SubjectNext(destroyed, errs, <<>>)]

NoStep == Step("construct", NoPath, "none", "none", <<>>, 0)

\* a variant in which every call answers false
Returned_False(step, res, errs) == [step EXCEPT !.result = "false", !.callErrors = errs]

\* a variant in which every call answers true
Returned_True(step, res, errs) == [step EXCEPT !.result = "true", !.callErrors = errs]

Returned(step, res, errs) == [step EXCEPT !.result = res, !.callErrors = errs]

\* the activation a new call takes
NewCall == CHOOSE c \in Slots : calls[c].pc = "free" /\ \A d \in 1..(c - 1) : calls[d].pc # "free"
CanCall == callsLeft > 0 /\ \E c \in Slots : calls[c].pc = "free"

Untrack == tracking' = FALSE /\ observed' = <<>>

\* the round trip of a goBack() answered true followed by a goForward() answered true,
\* with nothing but their own Navigator completions and notifications in between:
\* phase off (not followed), idle, back, mid, fwd, done; index, path and stack are
\* currentIndex, currentPath and _paths when goBack() was called; from is currentIndex
\* when the first of a run of consecutive goBack() calls answered true was called,
\* backs the number of calls of that run answered so far
TripOff == [phase |-> "off", index |-> 0, path |-> NoPath, stack |-> <<>>,
            from |-> 0, backs |-> 0]
TripIdle == [TripOff EXCEPT !.phase = "idle"]

\* a step that is not part of a round trip
EndTrip == trip' = IF trip.phase = "off" THEN trip ELSE TripIdle

IndexKinds == {"goBack", "goForward", "navigateToPath"}
InitKinds == {"initialize", "reset"}

serviceVars == <<paths, currentIndex, isNavigating, isInternalNavigation, previousPath,
                 isInitialized, navigationPromise, currentState>>

\* -------------------------------------------------------------------- Init
\* the state the constructor leaves, for a run of at most nCalls API calls and nMoves
\* location changes by other agents
InitState(nCalls, nMoves, track, tr) ==
  /\ autoInitialize \in BOOLEAN
  /\ location \in InitLocations
  /\ LET made == Construct(autoInitialize, location)
     IN /\ paths = made.paths
        /\ currentIndex = made.currentIndex
        /\ isInitialized = made.isInitialized
        /\ currentState = made.state
  /\ isNavigating = FALSE
  /\ isInternalNavigation = FALSE
  /\ previousPath = Undefined
  /\ navigationPromise = NoCall
  /\ destroyed = FALSE
  /\ pending = <<>>
  /\ calls = [c \in Slots |-> FreeCall]
  /\ callsLeft = nCalls
  /\ movesLeft = nMoves
  /\ last = NoStep
  /\ tracking = track
  /\ observed = <<>>
  /\ trip = tr

InitWith(nCalls, nMoves, track) == InitState(nCalls, nMoves, track, TripOff)

Init == InitWith(MaxCalls, MaxMoves, FALSE)

\* ------------------------------------------------------------- listeners
\* a variant of the guard that lets every notification through
IsDuplicate_Never(prev, p) == FALSE

\* the guard of the onUrlChange callback: a repeated path is ignored
IsDuplicate(prev, p) == prev = p

\* whether the onUrlChange callback takes a notification for the echo of its own request
TreatAsInternal(flag) == flag

\* handleInternalNavigation
handleInternalNavigation ==
  /\ isInternalNavigation' = FALSE
  /\ isNavigating' = FALSE
  /\ currentState' = NextState(destroyed, currentState,
                               MkState(paths, currentIndex, FALSE, location))
  /\ UNCHANGED <<paths, currentIndex>>

\* handleExternalNavigation followed by its updateNavigationState
HandleExternal(p) ==
  LET r == handleExternalNavigation(paths, currentIndex, p)
  IN /\ paths' = r.paths
     /\ currentIndex' = r.currentIndex
     /\ currentState' = NextState(destroyed, currentState,
                                  MkState(r.paths, r.currentIndex, isNavigating, location))

\* how the onUrlChange callback handles path p in the current state
HandledAs(p) ==
  IF IsDuplicate(previousPath, p) THEN "ignored"
  ELSE IF TreatAsInternal(isInternalNavigation) THEN "internal" ELSE "external"

\* the forward entries the callback removes for a notification of p
CutBy(p) ==
  IF HandledAs(p) = "external" /\ currentIndex < Len(paths) - 1
  THEN Len(paths) - 1 - Max2(currentIndex, 0)
  ELSE 0

\* the callback setupLocationListener registers with location.onUrlChange
onUrlChange(p) ==
  /\ UNCHANGED <<isInitialized, navigationPromise>>
  /\ CASE HandledAs(p) = "ignored" ->
            UNCHANGED <<paths, currentIndex, isNavigating, isInternalNavigation,
                        previousPath, currentState>>
       [] HandledAs(p) = "internal" ->
            /\ previousPath' = p
            /\ handleInternalNavigation
       [] HandledAs(p) = "external" ->
            /\ previousPath' = p
            /\ HandleExternal(p)
            /\ UNCHANGED <<isNavigating, isInternalNavigation>>

\* handleBrowserHistoryChange, the popstate subscriber
handleBrowserHistoryChange ==
  LET currentPath == CurrentPathOf(location)
      pathIndex == IndexOf(paths, currentPath)
  IN /\ UNCHANGED <<isNavigating, isInternalNavigation, previousPath, isInitialized,
                    navigationPromise>>
     /\ IF pathIndex # -1
        THEN /\ currentIndex' = pathIndex
             /\ currentState' = NextState(destroyed, currentState,
                                  MkState(paths, pathIndex, isNavigating, location))
             /\ UNCHANGED paths
        ELSE HandleExternal(currentPath)

\* ------------------------------------------------------------ environment
UrlEvent(p, cause) == [path |-> p, cause |-> cause]

MaxObserved == MaxHistoryLength + 2

\* another agent moves the location to p: Location will notify the listeners
ExternalNavigate(p) ==
  /\ p # location
  /\ movesLeft > 0
  /\ movesLeft' = movesLeft - 1
  /\ Len(pending) < MaxPending
  /\ location' = p
  /\ pending' = Append(pending, UrlEvent(p, "external"))
  /\ last' = Step("externalNavigate", p, "external", "none", <<>>, 0)
  /\ EndTrip
  /\ UNCHANGED <<autoInitialize, serviceVars, destroyed, calls, callsLeft, tracking, observed>>

\* the next pending notification reaches the onUrlChange callback (after ngOnDestroy
\* the callback is unregistered)
Deliver ==
  /\ pending # <<>>
  /\ LET ev == Head(pending)
     IN /\ pending' = Tail(pending)
        /\ IF destroyed
           THEN /\ UNCHANGED serviceVars
                /\ last' = Step("dropped", ev.path, ev.cause, "none", <<>>, 0)
                /\ Untrack
                /\ EndTrip
           ELSE /\ onUrlChange(ev.path)
                /\ last' = [Step("notify", ev.path, ev.cause, HandledAs(ev.path), <<>>,
                                 IF HandledAs(ev.path) = "ignored" THEN 0 ELSE 1)
                              EXCEPT !.cut = CutBy(ev.path)]
                /\ IF ev.cause = "internal" THEN UNCHANGED trip ELSE EndTrip
                /\ IF tracking /\ ev.cause = "external" /\ Len(observed) < MaxObserved
                   THEN /\ observed' = Append(observed, ev.path)
                        /\ UNCHANGED tracking
                   ELSE Untrack
  /\ UNCHANGED <<autoInitialize, destroyed, location, calls, callsLeft, movesLeft>>

\* a popstate event reaches the subscriber of fromEvent(window, 'popstate')
Popstate ==
  /\ movesLeft > 0
  /\ movesLeft' = movesLeft - 1
  /\ IF destroyed
     THEN /\ UNCHANGED serviceVars
          /\ last' = Step("dropped", CurrentPathOf(location), "popstate", "none", <<>>, 0)
     ELSE /\ handleBrowserHistoryChange
          /\ last' = Step("popstate", CurrentPathOf(location), "external",
                          IF IndexOf(paths, CurrentPathOf(location)) # -1
                          THEN "synced" ELSE "external", <<>>, 1)
  /\ Untrack
  /\ EndTrip
  /\ UNCHANGED <<autoInitialize, destroyed, location, pending, calls, callsLeft>>

\* Location repeats its most recent notification (it does not deduplicate)
Redeliver ==
  /\ ~destroyed
  /\ previousPath # Undefined
  /\ movesLeft > 0
  /\ movesLeft' = movesLeft - 1
  /\ onUrlChange(previousPath)
  /\ last' = Step("renotify", previousPath, "duplicate", HandledAs(previousPath),
                  <<>>, IF HandledAs(previousPath) = "ignored" THEN 0 ELSE 1)
  /\ EndTrip
  /\ UNCHANGED <<autoInitialize, destroyed, location, pending, calls, callsLeft,
                 tracking, observed>>

\* ------------------------------------------------------------- operations
\* a variant of the rejection that emits no error
Reject_Silent(kind, p, type) ==
  /\ last' = Returned(Step(kind, p, "none", "none", <<>>, 0), "false", <<>>)
  /\ UNCHANGED <<serviceVars, calls>>

\* a variant of the rejection that moves the index to the start
Reject_ToStart(kind, p, type) ==
  /\ last' = Returned(Step(kind, p, "none", "none", <<type>>, 0), "false", <<type>>)
  /\ currentIndex' = 0
  /\ UNCHANGED <<paths, isNavigating, isInternalNavigation, previousPath, isInitialized,
                 navigationPromise, currentState, calls>>

\* a call that fails before any await: emitError(type), return false
Reject(kind, p, type) ==
  /\ last' = Returned(Step(kind, p, "none", "none", <<type>>, 0), "false", <<type>>)
  /\ UNCHANGED <<serviceVars, calls>>

\* a variant of the lookup that always takes the first entry
TargetPath_First(ps, i) == IF Len(ps) > 0 THEN ps[1] ELSE Undefined

\* the path handed to router.navigateByUrl for index i: this._paths[i]
TargetPath(ps, i) == IF i >= 0 /\ i < Len(ps) THEN ps[i + 1] ELSE Undefined

\* a variant of performNavigation that leaves the index where it is
performNavigation_KeepIndex(c, kind, index, errs) ==
  /\ isNavigating' = TRUE
  /\ isInternalNavigation' = TRUE
  /\ currentState' = NextState(destroyed, currentState,
                               MkState(paths, currentIndex, TRUE, location))
  /\ calls' = [calls EXCEPT ![c] = [FreeCall EXCEPT !.kind = kind, !.pc = "navigating",
                                       !.path = TargetPath(paths, index), !.errs = errs]]
  /\ UNCHANGED <<paths, currentIndex, previousPath, isInitialized>>

\* a variant of performNavigation that emits the state before it sets the flags and
\* the index
performNavigation_EmitFirst(c, kind, index, errs) ==
  /\ isNavigating' = TRUE
  /\ isInternalNavigation' = TRUE
  /\ currentIndex' = index
  /\ currentState' = NextState(destroyed, currentState,
                               MkState(paths, currentIndex, isNavigating, location))
  /\ calls' = [calls EXCEPT ![c] = [FreeCall EXCEPT !.kind = kind, !.pc = "navigating",
                                       !.path = TargetPath(paths, index), !.errs = errs]]
  /\ UNCHANGED <<paths, previousPath, isInitialized>>

\* a variant of performNavigation that drops the entries after the target
performNavigation_Truncating(c, kind, index, errs) ==
  /\ isNavigating' = TRUE
  /\ isInternalNavigation' = TRUE
  /\ currentIndex' = index
  /\ paths' = SubSeq(paths, 1, Min2(index + 1, Len(paths)))
  /\ currentState' = NextState(destroyed, currentState,
                               MkState(paths', index, TRUE, location))
  /\ calls' = [calls EXCEPT ![c] = [FreeCall EXCEPT !.kind = kind, !.pc = "navigating",
                                       !.path = TargetPath(paths, index), !.errs = errs]]
  /\ UNCHANGED <<previousPath, isInitialized>>

\* performNavigation up to its await: flags, index, state emission, the Navigator call
performNavigation(c, kind, index, errs) ==
  /\ isNavigating' = TRUE
  /\ isInternalNavigation' = TRUE
  /\ currentIndex' = index
  /\ currentState' = NextState(destroyed, currentState, MkState(paths, index, TRUE, location))
  /\ calls' = [calls EXCEPT ![c] = [FreeCall EXCEPT !.kind = kind, !.pc = "navigating",
                                       !.path = TargetPath(paths, index), !.errs = errs]]
  /\ UNCHANGED <<paths, previousPath, isInitialized>>

\* whether navigateToIndex finds a navigation in progress
InProgress(handle) == handle # NoCall

\* navigateToIndex up to its first await
navigateToIndex(c, kind, p, index) ==
  IF index < 0 \/ index >= Len(paths)
  THEN Reject(kind, p, "INVALID_INDEX")
  ELSE IF InProgress(navigationPromise)
  THEN /\ calls' = [calls EXCEPT ![c] = [FreeCall EXCEPT !.kind = kind, !.pc = "waiting",
                                            !.idx = index, !.waitOn = navigationPromise,
                                            !.errs = <<"CONCURRENT_NAVIGATION">>]]
       /\ last' = Step(kind, p, "none", "none", <<"CONCURRENT_NAVIGATION">>, 0)
       /\ UNCHANGED serviceVars
  ELSE /\ navigationPromise' = c
       /\ performNavigation(c, kind, index, <<>>)
       /\ last' = Step(kind, TargetPath(paths, index), "none", "none", <<>>, 1)

GoBack ==
  /\ CanCall
  /\ IF ~CanGoBack(currentIndex)
     THEN Reject("goBack", NoPath, "INVALID_INDEX")
     ELSE navigateToIndex(NewCall, "goBack", NoPath, currentIndex - 1)
  /\ callsLeft' = callsLeft - 1
  /\ Untrack
  /\ IF /\ trip.phase # "off"
        /\ pending = <<>>
        /\ \A c \in Slots : calls[c].pc = "free"
        /\ calls'[NewCall].pc = "navigating"
     THEN trip' = [phase |-> "back", index |-> currentIndex,
                   path |-> CurrentPathOf(location), stack |-> paths,
                   from |-> IF trip.phase = "mid" THEN trip.from ELSE currentIndex,
                   backs |-> IF trip.phase = "mid" THEN trip.backs ELSE 0]
     ELSE EndTrip
  /\ UNCHANGED <<autoInitialize, destroyed, location, pending, movesLeft>>

GoForward ==
  /\ CanCall
  /\ IF ~CanGoForward(paths, currentIndex)
     THEN Reject("goForward", NoPath, "INVALID_INDEX")
     ELSE navigateToIndex(NewCall, "goForward", NoPath, currentIndex + 1)
  /\ callsLeft' = callsLeft - 1
  /\ Untrack
  /\ IF trip.phase = "mid" /\ pending = <<>> /\ calls'[NewCall].pc = "navigating"
     THEN trip' = [trip EXCEPT !.phase = "fwd"]
     ELSE EndTrip
  /\ UNCHANGED <<autoInitialize, destroyed, location, pending, movesLeft>>

NavigateToPath(p) ==
  /\ CanCall
  /\ IF IndexOf(paths, p) = -1
     THEN Reject("navigateToPath", p, "INVALID_INDEX")
     ELSE navigateToIndex(NewCall, "navigateToPath", p, IndexOf(paths, p))
  /\ callsLeft' = callsLeft - 1
  /\ Untrack
  /\ EndTrip
  /\ UNCHANGED <<autoInitialize, destroyed, location, pending, movesLeft>>

\* the continuation of navigateToIndex once the awaited navigationPromise has settled
\* a variant in which the waiter brings its index back into the stack's range
ResumeIndex_Clamped(c) == Max2(0, Min2(calls[c].idx, Len(paths) - 1))

\* the index parameter navigateToIndex passes on after its await
ResumeIndex(c) == calls[c].idx

WaitResume(c) ==
  /\ calls[c].pc = "ready"
  /\ navigationPromise' = c
  /\ performNavigation(c, calls[c].kind, ResumeIndex(c), calls[c].errs)
  /\ last' = Step("resume", TargetPath(paths, ResumeIndex(c)), "none", "none", <<>>, 1)
  /\ Untrack
  /\ EndTrip
  /\ UNCHANGED <<autoInitialize, destroyed, location, pending, callsLeft, movesLeft>>

\* initialize(path?) up to its await; reset() is initialize()
InitialPath(arg) == IF arg # NoPath THEN arg ELSE CurrentPathOf(location)

InitializeCall(kind, arg) ==
  /\ CanCall
  /\ isNavigating' = TRUE
  /\ isInternalNavigation' = TRUE
  /\ currentState' = NextState(destroyed, currentState,
                               MkState(paths, currentIndex, TRUE, location))
  /\ calls' = [calls EXCEPT ![NewCall] = [FreeCall EXCEPT !.kind = kind, !.pc = "navigating",
                                            !.path = InitialPath(arg)]]
  /\ last' = Step(kind, InitialPath(arg), "none", "none", <<>>, 1)
  /\ callsLeft' = callsLeft - 1
  /\ Untrack
  /\ EndTrip
  /\ UNCHANGED <<autoInitialize, paths, currentIndex, previousPath, isInitialized,
                 navigationPromise, destroyed, location, pending, movesLeft>>

Initialize(arg) == InitializeCall("initialize", arg)

\* a variant of reset that always goes to the default route
Reset_ToDefault == InitializeCall("reset", DefaultRoute)

Reset == InitializeCall("reset", NoPath)

\* a variant of clearHistory that also abandons the navigation in flight
ClearHistory_Abort ==
  /\ callsLeft > 0
  /\ callsLeft' = callsLeft - 1
  /\ paths' = <<>>
  /\ currentIndex' = 0
  /\ isNavigating' = FALSE
  /\ isInternalNavigation' = FALSE
  /\ navigationPromise' = NoCall
  /\ currentState' = NextState(destroyed, currentState, MkState(<<>>, 0, FALSE, location))
  /\ last' = Step("clearHistory", NoPath, "none", "none", <<>>, 1)
  /\ Untrack
  /\ EndTrip
  /\ UNCHANGED <<autoInitialize, previousPath, isInitialized, destroyed, location, pending,
                 calls, movesLeft>>

\* a variant of clearHistory that returns the service to its uninitialized state
ClearHistory_Uninitialize ==
  /\ callsLeft > 0
  /\ callsLeft' = callsLeft - 1
  /\ paths' = <<>>
  /\ currentIndex' = 0
  /\ isInitialized' = FALSE
  /\ currentState' = NextState(destroyed, currentState, MkState(<<>>, 0, isNavigating, location))
  /\ last' = Step("clearHistory", NoPath, "none", "none", <<>>, 1)
  /\ Untrack
  /\ EndTrip
  /\ UNCHANGED <<autoInitialize, isNavigating, isInternalNavigation, previousPath,
                 navigationPromise, destroyed, location, pending, calls, movesLeft>>

ClearHistory ==
  /\ callsLeft > 0
  /\ callsLeft' = callsLeft - 1
  /\ paths' = <<>>
  /\ currentIndex' = 0
  /\ currentState' = NextState(destroyed, currentState, MkState(<<>>, 0, isNavigating, location))
  /\ last' = Step("clearHistory", NoPath, "none", "none", <<>>, 1)
  /\ Untrack
  /\ EndTrip
  /\ UNCHANGED <<autoInitialize, isNavigating, isInternalNavigation, previousPath,
                 isInitialized, navigationPromise, destroyed, location, pending, calls,
                 movesLeft>>

ngOnDestroy ==
  /\ ~destroyed
  /\ destroyed' = TRUE
  /\ last' = Step("ngOnDestroy", NoPath, "none", "none", <<>>, 0)
  /\ Untrack
  /\ EndTrip
  /\ UNCHANGED <<autoInitialize, serviceVars, location, pending, calls, callsLeft, movesLeft>>

\* -------------------------------------------------- Navigator completions
\* where a successful router.navigateByUrl(target) lands: Router.parseUrl falls back to
\* the root for a target it cannot parse (this._paths[index] of a stale index)
Landing(target) == IF target = Undefined THEN DefaultRoute ELSE target

\* the Navigator call of activation c settles: resolves true (the Router has set the
\* location, and Location notifies the listeners), resolves false, or rejects
NavigatorSettle(c, o) ==
  /\ calls[c].pc = "navigating"
  /\ calls' = [calls EXCEPT ![c].pc = "settled", ![c].outcome = o]
  /\ IF o = "true"
     THEN /\ Len(pending) < MaxPending
          /\ location' = Landing(calls[c].path)
          /\ pending' = Append(pending, UrlEvent(Landing(calls[c].path), "internal"))
     ELSE UNCHANGED <<location, pending>>
  /\ last' = Step("settle", calls[c].path, "none", "none", <<>>, 0)
  /\ Untrack
  /\ UNCHANGED <<autoInitialize, serviceVars, destroyed, callsLeft, movesLeft, trip>>

\* a waiter that is never resumed
Settled_NoWake(cs, c) == [cs EXCEPT ![c] = FreeCall]

\* the activation c ends; every activation awaiting its promise becomes ready
Settled(cs, c) ==
  [d \in Slots |->
     IF d = c THEN FreeCall
     ELSE IF cs[d].pc = "waiting" /\ cs[d].waitOn = c
          THEN [cs[d] EXCEPT !.pc = "ready", !.waitOn = NoCall]
          ELSE cs[d]]

\* the handle performNavigation leaves in navigationPromise in its finally block
AfterFinally(handle, c) == NoCall

\* performNavigation after its await: the result, the failure handling, the finally block
PerformResume(c) ==
  /\ calls[c].pc = "settled"
  /\ calls[c].kind \in IndexKinds
  /\ navigationPromise' = AfterFinally(navigationPromise, c)
  /\ calls' = Settled(calls, c)
  /\ IF calls[c].outcome = "true"
     THEN /\ last' = Returned(Step(calls[c].kind, calls[c].path, "none", "none", <<>>, 0),
                               "true", calls[c].errs)
          /\ UNCHANGED <<isNavigating, isInternalNavigation>>
     ELSE /\ last' = Returned(Step(calls[c].kind, calls[c].path, "none", "none",
                                    <<"NAVIGATION_FAILED">>, 0),
                               "false", calls[c].errs \o <<"NAVIGATION_FAILED">>)
          /\ isInternalNavigation' = FALSE
          /\ isNavigating' = FALSE
  /\ Untrack
  /\ IF trip.phase \in {"back", "fwd"} /\ calls[c].outcome = "true"
     THEN trip' = IF trip.phase = "back"
                  THEN [trip EXCEPT !.phase = "mid", !.backs = trip.backs + 1]
                  ELSE [trip EXCEPT !.phase = "done"]
     ELSE EndTrip
  /\ UNCHANGED <<autoInitialize, paths, currentIndex, previousPath, isInitialized,
                 currentState, destroyed, location, pending, callsLeft, movesLeft>>

\* initialize after its await
InitializeResume(c) ==
  /\ calls[c].pc = "settled"
  /\ calls[c].kind \in InitKinds
  /\ calls' = Settled(calls, c)
  /\ isInternalNavigation' = FALSE
  /\ isNavigating' = FALSE
  /\ IF calls[c].outcome = "true"
     THEN LET added == addToHistory(<<>>, currentIndex, calls[c].path)
          IN /\ paths' = added.paths
             /\ currentIndex' = 0
             /\ isInitialized' = TRUE
             /\ currentState' = NextState(destroyed, currentState,
                                          MkState(added.paths, 0, isNavigating, location))
             /\ last' = Returned(Step(calls[c].kind, calls[c].path, "none", "none",
                                       <<>>, 1), "true", <<>>)
     ELSE /\ last' = Returned(Step(calls[c].kind, calls[c].path, "none", "none",
                                    <<"INITIALIZATION_FAILED">>, 0),
                               "false", <<"INITIALIZATION_FAILED">>)
          /\ UNCHANGED <<paths, currentIndex, isInitialized, currentState>>
  /\ Untrack
  /\ EndTrip
  /\ UNCHANGED <<autoInitialize, previousPath, navigationPromise, destroyed, location,
                 pending, callsLeft, movesLeft>>

\* -------------------------------------------------------------------- Next
Next ==
  \/ \E p \in Paths : ExternalNavigate(p)
  \/ Deliver
  \/ Popstate
  \/ Redeliver
  \/ GoBack
  \/ GoForward
  \/ \E p \in Paths : NavigateToPath(p)
  \/ \E arg \in InitArgs : Initialize(arg)
  \/ Reset
  \/ ClearHistory
  \/ \E c \in Slots : WaitResume(c)
  \/ \E c \in Slots, o \in Outcomes : NavigatorSettle(c, o)
  \/ \E c \in Slots : PerformResume(c)
  \/ \E c \in Slots : InitializeResume(c)

Spec == Init /\ [][Next]_vars

\* a freshly constructed machine that only observes external navigations
NextExternal ==
  \/ \E p \in Paths : ExternalNavigate(p)
  \/ Deliver
  \/ Redeliver

SpecExternal == InitWith(0, MaxObserved + 1, TRUE) /\ [][NextExternal]_vars

\* rapid index-navigation requests: goBack/goForward/navigateToPath calls racing with
\* each other, their Navigator completions and echoes
NextRace ==
  \/ \E p \in Paths : ExternalNavigate(p)
  \/ Deliver
  \/ GoBack
  \/ GoForward
  \/ \E p \in Paths : NavigateToPath(p)
  \/ \E c \in Slots : WaitResume(c)
  \/ \E c \in Slots, o \in Outcomes : NavigatorSettle(c, o)
  \/ \E c \in Slots : PerformResume(c)

SpecRace == InitWith(RaceCalls, RaceMoves, FALSE) /\ [][NextRace]_vars

\* every operation, with the goBack()/goForward() round trips followed
SpecFollowed == InitState(MaxCalls, MaxMoves, FALSE, TripIdle) /\ [][Next]_vars

\* the same requests with the goBack()/goForward() round trips followed
SpecTrip == InitState(TripCalls, TripMoves, FALSE, TripIdle) /\ [][NextRace]_vars

\* the scheduling the liveness of the calls rests on: every Navigator call settles,
\* and the continuation of every await whose promise has settled runs
Fairness ==
  \A c \in Slots :
    /\ WF_vars(\E o \in Outcomes : NavigatorSettle(c, o))
    /\ WF_vars(WaitResume(c))
    /\ WF_vars(PerformResume(c))
    /\ WF_vars(InitializeResume(c))

FairSpec == InitWith(LiveCalls, LiveMoves, FALSE) /\ [][Next]_vars /\ Fairness

\* ------------------------------------------------------------------ claims
IndexValid == 0 <= currentIndex /\ currentIndex < Len(paths)

\* C1 as stated: once initialized, 0 <= currentIndex < stack length in every reachable
\* state. clearHistory leaves index 0 on an empty stack, so this is violated.
C1_IndexInStackOnceInitialized == isInitialized => IndexValid

\* C1, amended: currentIndex is never negative; auto-initialization and a successful
\* initialize/reset leave 0 <= currentIndex < stack length; and every later step keeps
\* that, except clearHistory (empty stack, index 0) and the start of a queued
\* index-navigation, which applies the index it was given without re-validating it.
C1_IndexInRange ==
  /\ currentIndex >= 0
  /\ autoInitialize => IndexValid
  /\ [][/\ currentIndex' >= 0
        /\ (last'.op \in InitKinds /\ last'.result = "true") => IndexValid'
        /\ (IndexValid /\ last'.op \notin {"resume", "clearHistory"}) => IndexValid']_vars

\* C1 witness: an initialized machine whose goBack has succeeded from a longer stack,
\* leaving the index at the first of several entries
C1_Witness ==
  /\ isInitialized
  /\ last.op = "goBack" /\ last.result = "true"
  /\ currentIndex = 0 /\ Len(paths) > 1

\* C2: the stack length never exceeds maxHistoryLength
C2_StackBounded == Len(paths) <= MaxHistoryLength

\* C2 witness: an external navigation has just been appended to a stack that was
\* already full, so the oldest entry (the auto-initialized root) was dropped
C2_Witness ==
  /\ autoInitialize
  /\ last.op = "notify" /\ last.handled = "external"
  /\ Len(paths) = MaxHistoryLength
  /\ callsLeft = MaxCalls /\ movesLeft = 0
  /\ ~Includes(paths, DefaultRoute)

\* the index-navigations whose Navigator call is outstanding
InFlight == {c \in Slots : calls[c].kind \in IndexKinds /\ calls[c].pc = "navigating"}

\* C3: at most one Navigator call issued by index-navigation is outstanding at any
\* moment, for any number of requests issued while one is in flight
C3_AtMostOneNavigatorCall == Cardinality(InFlight) <= 1

\* C4: an index-navigation request with a valid index that arrives while another
\* index-navigation is in flight emits CONCURRENT_NAVIGATION; and a request that was
\* queued returns the result of its own Navigator call
C4_QueuedNotDropped ==
  [][/\ (/\ callsLeft' = callsLeft - 1
         /\ last'.op \in IndexKinds
         /\ last'.result = "none"
         /\ InFlight # {})
        => last'.errors = <<"CONCURRENT_NAVIGATION">>
     /\ \A c \in Slots :
          (/\ calls[c].kind \in IndexKinds
           /\ calls[c].pc = "settled"
           /\ calls'[c].pc = "free"
           /\ calls[c].errs # <<>>)
          => last'.result = (IF calls[c].outcome = "true" THEN "true" ELSE "false")]_vars

\* C5: provided every Navigator call settles, every call of goBack, goForward,
\* navigateToPath, initialize and reset eventually returns, the calls made while
\* another navigation is in flight included
C5_EveryCallSettles == \A c \in Slots : (calls[c].pc # "free") ~> (calls[c].pc = "free")

\* a call that was queued behind another navigation has returned its boolean
C5_Witness ==
  /\ last.op \in IndexKinds
  /\ last.result \in {"true", "false"}
  /\ Len(last.callErrors) >= 1
  /\ last.callErrors[1] = "CONCURRENT_NAVIGATION"

\* no call is in progress and no location notification is on its way
Quiescent == pending = <<>> /\ \A c \in Slots : calls[c].pc = "free"

\* C6: once the requests' Navigator calls have settled and the notifications they
\* caused have been delivered, isNavigating and isInternalNavigation are both false
C6_FlagsOnlyWhileInFlight == Quiescent => (~isNavigating /\ ~isInternalNavigation)

\* C7: in every state, a notification of a location change made by another agent, to
\* a path other than the previously notified one, leaves the path as the last stack
\* entry with currentIndex pointing at it
C7_ExternalChangeAlwaysAppended ==
  [][(/\ last'.op = "notify"
      /\ last'.cause = "external"
      /\ last'.path # previousPath)
     => (/\ paths' # <<>>
         /\ LastOf(paths') = last'.path
         /\ currentIndex' = Len(paths') - 1)]_vars

\* C8: the notification that echoes the machine's own Navigator request changes
\* neither the stack nor currentIndex, in every interleaving
C8_EchoKeepsStackAndIndex ==
  [][(last'.op = "notify" /\ last'.cause = "internal")
     => (paths' = paths /\ currentIndex' = currentIndex)]_vars

\* the run so far is the construction followed by external navigations to the paths
\* of observed, all of them delivered
ObservedAll == tracking /\ pending = <<>>

\* C9 as stated: after n <= maxHistoryLength external navigations observed by a fresh
\* machine, historyLength = n, currentIndex = n - 1 and currentPath = pn
C9_LengthEqualsObserved ==
  (ObservedAll /\ Len(observed) \in 1..MaxHistoryLength)
  => /\ Len(paths) = Len(observed)
     /\ currentIndex = Len(observed) - 1
     /\ CurrentPathOf(location) = LastOf(observed)

\* C9: after n <= maxHistoryLength external navigations observed by a fresh machine,
\* the stack holds the n paths preceded, under autoInitialize, by the path of the
\* construction (up to the bound), currentIndex addresses the last entry, which is pn,
\* and currentPath = pn
C9_SeededLength ==
  (ObservedAll /\ Len(observed) \in 1..MaxHistoryLength)
  => /\ Len(paths) = (IF autoInitialize
                      THEN Min2(Len(observed) + 1, MaxHistoryLength)
                      ELSE Len(observed))
     /\ currentIndex = Len(paths) - 1
     /\ LastOf(paths) = LastOf(observed)
     /\ CurrentPathOf(location) = LastOf(observed)

C9_Witness ==
  /\ ObservedAll
  /\ autoInitialize
  /\ Len(observed) = MaxHistoryLength
  /\ last.op = "notify"
  /\ Len(paths) = MaxHistoryLength

\* C10: after external navigations to more than maxHistoryLength paths, the stack
\* has maxHistoryLength entries, the most recent ones in visit order, and
\* currentIndex = maxHistoryLength - 1
C10_KeepsMostRecent ==
  (ObservedAll /\ Len(observed) > MaxHistoryLength)
  => /\ Len(paths) = MaxHistoryLength
     /\ paths = SubSeq(observed, Len(observed) - MaxHistoryLength + 1, Len(observed))
     /\ currentIndex = MaxHistoryLength - 1

C10_Witness ==
  /\ ObservedAll
  /\ Len(observed) = MaxHistoryLength + 1
  /\ Cardinality({observed[i] : i \in 1..Len(observed)}) = MaxHistoryLength + 1
  /\ last.op = "notify"
  /\ last.handled = "external"

C12_DuplicateIsNoOp ==
  [][(last'.op \in {"notify", "renotify"} /\ last'.path = previousPath)
     => (/\ UNCHANGED serviceVars
         /\ last'.handled = "ignored"
         /\ last'.emits = 0)]_vars

C12_Witness ==
  /\ last.op = "renotify"
  /\ last.handled = "ignored"
  /\ isInternalNavigation
  /\ isNavigating
  /\ \E c \in Slots : calls[c].pc = "navigating"

\* the step in which activation c enters performNavigation, and the index it was given
StartsNavigating(c) ==
  /\ calls[c].pc \in {"free", "ready"}
  /\ calls'[c].pc = "navigating"
  /\ calls'[c].kind \in IndexKinds

RequestedIndex(c) ==
  IF calls[c].pc = "ready" THEN calls[c].idx
  ELSE IF last'.op = "goBack" THEN currentIndex - 1
  ELSE IF last'.op = "goForward" THEN currentIndex + 1
  ELSE IndexOf(paths, last'.path)

\* the step in which the index-navigation c returns after its Navigator call failed
FailsNavigation(c) ==
  /\ calls[c].kind \in IndexKinds
  /\ calls[c].pc = "settled"
  /\ calls[c].outcome # "true"
  /\ calls'[c].pc = "free"

\* C14: an index-navigation sets currentIndex to its target before the Navigator call
\* and, when that call resolves false or throws, emits NAVIGATION_FAILED, returns
\* false, clears isNavigating and isInternalNavigation and does not roll the index
\* back; the request never changes the stack
C14_FailureKeepsTargetIndex ==
  [][\A c \in Slots :
       /\ StartsNavigating(c)
          => (/\ currentIndex' = RequestedIndex(c)
              /\ paths' = paths)
       /\ FailsNavigation(c)
          => (/\ last'.result = "false"
              /\ last'.errors = <<"NAVIGATION_FAILED">>
              /\ ~isNavigating'
              /\ ~isInternalNavigation'
              /\ currentIndex' = currentIndex
              /\ paths' = paths)]_vars

C14_Witness ==
  /\ last.op = "goBack"
  /\ last.result = "false"
  /\ last.errors = <<"NAVIGATION_FAILED">>
  /\ Len(paths) = 2
  /\ currentIndex = 0
  /\ CurrentPathOf(location) = paths[2]
  /\ paths[1] # paths[2]
  /\ ~isNavigating
  /\ ~isInternalNavigation

\* the step in which the method named op is called
CallOf(op) == last'.op = op /\ callsLeft' = callsLeft - 1

\* a call answered false with one INVALID_INDEX error, no Navigator call, no state
\* emission and no change to the service
RejectedUntouched ==
  /\ last'.result = "false"
  /\ last'.errors = <<"INVALID_INDEX">>
  /\ last'.callErrors = <<"INVALID_INDEX">>
  /\ last'.emits = 0
  /\ UNCHANGED <<serviceVars, calls, location, pending>>

\* C15: goBack() at currentIndex 0 returns false, emits exactly one INVALID_INDEX,
\* makes no Navigator call and changes neither stack, index, flags nor emitted state
C15_GoBackAtStartRejected ==
  [][(CallOf("goBack") /\ currentIndex = 0) => RejectedUntouched]_vars

C15_Witness ==
  /\ last.op = "goBack"
  /\ last.result = "false"
  /\ last.errors = <<"INVALID_INDEX">>
  /\ currentIndex = 0
  /\ Len(paths) = 2
  /\ \A c \in Slots : calls[c].pc = "free"

\* C16: goForward() when canGoForward is false (at the last position, or on an empty
\* stack) returns false, emits exactly one INVALID_INDEX, makes no Navigator call and
\* changes neither stack nor index
C16_GoForwardAtEndRejected ==
  [][(CallOf("goForward") /\ ~CanGoForward(paths, currentIndex))
     => (/\ last'.result = "false"
         /\ last'.errors = <<"INVALID_INDEX">>
         /\ last'.callErrors = <<"INVALID_INDEX">>
         /\ paths' = paths
         /\ currentIndex' = currentIndex
         /\ UNCHANGED <<calls, location, pending>>)]_vars

C16_Witness ==
  /\ last.op = "goForward"
  /\ last.result = "false"
  /\ last.errors = <<"INVALID_INDEX">>
  /\ paths = <<>>
  /\ currentIndex = 0
  /\ \A c \in Slots : calls[c].pc = "free"

\* the step in which the initialize/reset c returns, its Navigator call having
\* succeeded (ok) or failed
InitializeReturns(c, ok) ==
  /\ calls[c].kind \in InitKinds
  /\ calls[c].pc = "settled"
  /\ (calls[c].outcome = "true") = ok
  /\ calls'[c].pc = "free"

\* the history is exactly [x] at index 0
SingletonAt(ps, ci, x) ==
  /\ ps = <<x>>
  /\ ci = 0
  /\ ~CanGoBack(ci)
  /\ ~CanGoForward(ps, ci)

\* C17: initialize(x) whose Navigator call succeeds leaves the history exactly [x] at
\* index 0 with initialized true, whatever came before, and this also when the
\* notification for x is delivered after the call has returned
C17_InitializeLeavesSingleton ==
  [][/\ \A c \in Slots :
          InitializeReturns(c, TRUE)
          => (/\ SingletonAt(paths', currentIndex', calls[c].path)
              /\ isInitialized'
              /\ last'.result = "true")
     /\ (/\ last.op \in InitKinds
         /\ last.result = "true"
         /\ last'.op = "notify"
         /\ last'.cause = "internal"
         /\ last'.path = last.path)
        => SingletonAt(paths', currentIndex', last.path)]_vars

\* C18: initialize/reset whose Navigator call resolves false or throws emits
\* INITIALIZATION_FAILED, returns false, leaves stack, index and the initialized flag
\* as they are and leaves isNavigating and isInternalNavigation false
C18_InitializeFailureKeepsHistory ==
  [][\A c \in Slots :
       InitializeReturns(c, FALSE)
       => (/\ last'.result = "false"
           /\ last'.errors = <<"INITIALIZATION_FAILED">>
           /\ paths' = paths
           /\ currentIndex' = currentIndex
           /\ isInitialized' = isInitialized
           /\ ~isNavigating'
           /\ ~isInternalNavigation')]_vars

C18_Witness ==
  /\ last.op \in InitKinds
  /\ last.result = "false"
  /\ last.errors = <<"INITIALIZATION_FAILED">>
  /\ Len(paths) = 2
  /\ currentIndex = 1
  /\ isInitialized
  /\ ~isNavigating
  /\ ~isInternalNavigation

\* C19: navigateToPath(p) for a path absent from the stack returns false and emits
\* INVALID_INDEX, without a Navigator call and without changing stack, index or flags
C19_UnknownPathRejected ==
  [][(CallOf("navigateToPath") /\ \A i \in 1..Len(paths) : paths[i] # last'.path)
     => RejectedUntouched]_vars

C19_Witness ==
  /\ last.op = "navigateToPath"
  /\ last.result = "false"
  /\ last.errors = <<"INVALID_INDEX">>
  /\ Len(paths) = 2
  /\ \A i \in 1..Len(paths) : paths[i] # last.path

\* position i (0-based) is the lowest one of ps holding p
IsFirstPosition(ps, p, i) ==
  /\ i >= 0
  /\ i < Len(ps)
  /\ ps[i + 1] = p
  /\ \A j \in 1..i : ps[j] # p

\* C20: navigateToPath(p) for a path in the stack targets the lowest position holding
\* p: with no navigation in progress it sets currentIndex to that position and calls
\* the Navigator with p; behind a navigation in progress it queues that position; the
\* stack is unchanged by the call and by its successful return, which answers true
C20_NavigateToPathTargetsFirst ==
  [][/\ (CallOf("navigateToPath") /\ \E i \in 1..Len(paths) : paths[i] = last'.path)
        => (/\ paths' = paths
            /\ IF InProgress(navigationPromise)
               THEN /\ calls'[NewCall].pc = "waiting"
                    /\ IsFirstPosition(paths, last'.path, calls'[NewCall].idx)
                    /\ currentIndex' = currentIndex
               ELSE /\ calls'[NewCall].pc = "navigating"
                    /\ calls'[NewCall].path = last'.path
                    /\ IsFirstPosition(paths, last'.path, currentIndex'))
     /\ \A c \in Slots :
          (/\ calls[c].kind = "navigateToPath"
           /\ calls[c].pc = "settled"
           /\ calls[c].outcome = "true"
           /\ calls'[c].pc = "free")
          => (last'.result = "true" /\ paths' = paths)]_vars

C20_Witness ==
  /\ last.op = "navigateToPath"
  /\ last.result = "true"
  /\ Len(paths) = 2
  /\ paths[1] = paths[2]
  /\ last.path = paths[1]
  /\ currentIndex = 0
  /\ callsLeft = MaxCalls - 1
  /\ movesLeft = MaxMoves - 1

\* the round trip has ended: goBack() and then goForward() have both returned true
TripDone == trip.phase = "done"

\* when goBack() was called, currentPath was the stack entry at currentIndex
TripAligned == trip.index < Len(trip.stack) /\ trip.stack[trip.index + 1] = trip.path

\* currentIndex, currentPath and the stack are what they were when goBack() was called
TripRestored ==
  /\ currentIndex = trip.index
  /\ CurrentPathOf(location) = trip.path
  /\ paths = trip.stack

\* C13 as stated: from any state where canGoBack holds, goBack() then goForward(),
\* both successful, restore currentIndex and currentPath and leave the stack unchanged
C13_BackForwardInverse == TripDone => TripRestored

\* C13: from a state where canGoBack holds and currentPath is the stack entry at
\* currentIndex, goBack() then goForward(), both successful and each notification
\* delivered before the next request, restore currentIndex and currentPath and leave
\* the stack unchanged; from any state they restore currentIndex and the stack
C13_InverseWhenAligned ==
  TripDone => /\ currentIndex = trip.index
              /\ paths = trip.stack
              /\ TripAligned => TripRestored

C13_Witness ==
  /\ TripDone
  /\ TripAligned
  /\ pending = <<>>
  /\ last.op = "notify"
  /\ last.handled = "internal"
  /\ currentIndex = 1

\* the error types that make a call fail
FailureTypes == {"INVALID_INDEX", "NAVIGATION_FAILED", "INITIALIZATION_FAILED"}

\* C21: every call that returns answers a boolean, also when its Navigator call
\* threw, and it answers false exactly when it emitted an INVALID_INDEX,
\* NAVIGATION_FAILED or INITIALIZATION_FAILED error; CONCURRENT_NAVIGATION alone does
\* not make it fail
C21_FalseIffFailureEmitted ==
  [][/\ last'.result # "none"
        => /\ last'.result \in {"true", "false"}
           /\ (last'.result = "false")
              <=> (\E i \in 1..Len(last'.callErrors) : last'.callErrors[i] \in FailureTypes)
     /\ \A c \in Slots :
          (calls[c].pc = "settled" /\ calls[c].outcome = "throw" /\ calls'[c].pc = "free")
          => last'.result = "false"]_vars

C21_Witness ==
  /\ last.op \in IndexKinds
  /\ last.result = "true"
  /\ last.callErrors = <<"CONCURRENT_NAVIGATION">>

\* after the step, currentIndex addresses the stack entry equal to the location
AddressesLocation ==
  /\ IndexValid'
  /\ paths'[currentIndex' + 1] = CurrentPathOf(location')

\* the steps that complete a transition: an external change handled, the echo of an
\* index-navigation processed, an initialize/reset answered true, a popstate handled
ExternalHandled == last'.op = "notify" /\ last'.cause = "external" /\ last'.handled = "external"
EchoProcessed ==
  /\ last'.op = "notify"
  /\ last'.cause = "internal"
  /\ last'.handled = "internal"
  /\ \A c \in Slots : calls[c].kind \notin InitKinds
InitializeSucceeded == last'.op \in InitKinds /\ last'.result = "true"
PopstateHandled == last'.op = "popstate"

\* C22 as stated: after every successful transition the entry at currentIndex is the
\* observed location
C22_IndexAddressesLocation ==
  [][(ExternalHandled \/ EchoProcessed \/ InitializeSucceeded \/ PopstateHandled)
     => AddressesLocation]_vars

\* a goBack() or a whole round trip has succeeded with nothing else in between, and
\* its notification has been delivered
SucceededAlone == trip.phase \in {"mid", "done"} /\ pending = <<>>

\* C22: the entry at currentIndex is the notified path after an external change
\* handled as external, which is the observed location once no further notification
\* is pending; it is the observed location after a popstate; after a successful
\* initialize it is the path initialize navigated to; after an index-navigation that
\* succeeded with no other operation or location change in between it is the
\* observed location
C22_AddressesAfterUndisturbed ==
  [][/\ SucceededAlone' => AddressesLocation
     /\ ExternalHandled => /\ IndexValid'
                           /\ paths'[currentIndex' + 1] = last'.path
                           /\ pending' = <<>> => AddressesLocation
     /\ PopstateHandled => AddressesLocation
     /\ InitializeSucceeded => (IndexValid' /\ paths'[currentIndex' + 1] = last'.path)]_vars

C22_Witness ==
  /\ trip.phase = "mid"
  /\ pending = <<>>
  /\ last.op = "notify"
  /\ last.cause = "internal"
  /\ last.handled = "internal"
  /\ Len(paths) = 2
  /\ currentIndex = 0

\* the fields of the last emitted state that are derived from the stack and the index
StateFollowsStack ==
  /\ currentState.paths = paths
  /\ currentState.currentIndex = currentIndex
  /\ currentState.historyLength = Len(paths)
  /\ currentState.canGoBack = (currentIndex > 0)
  /\ currentState.canGoForward = (currentIndex < Len(paths) - 1)

\* C23: every step that changes the stack or currentIndex emits a NavigationState, and
\* between steps currentState's paths, currentIndex, historyLength, canGoBack and
\* canGoForward are the values derived from the actual stack and index
C23_StateFollowsStack ==
  /\ StateFollowsStack
  /\ [][/\ StateFollowsStack'
        /\ (paths' # paths \/ currentIndex' # currentIndex) => last'.emits >= 1]_vars

C23_Witness ==
  /\ last.op = "notify"
  /\ last.handled = "external"
  /\ last.emits = 1
  /\ currentIndex = 1
  /\ currentState.currentIndex = 1
  /\ currentState.paths = paths
  /\ currentState.canGoBack
  /\ ~currentState.canGoForward

\* C24: clearHistory() empties the stack, sets currentIndex to 0, emits one
\* NavigationState, and leaves isNavigating, isInternalNavigation, the initialized flag
\* and the in-flight navigation handle unchanged, with or without a navigation in flight
C24_ClearHistoryKeepsFlags ==
  [][last'.op = "clearHistory"
     => /\ paths' = <<>>
        /\ currentIndex' = 0
        /\ last'.emits = 1
        /\ currentState'.paths = <<>>
        /\ currentState'.currentIndex = 0
        /\ currentState'.isNavigating = isNavigating
        /\ UNCHANGED <<isNavigating, isInternalNavigation, isInitialized,
                       navigationPromise, calls, pending>>]_vars

C24_Witness ==
  /\ last.op = "clearHistory"
  /\ paths = <<>>
  /\ isNavigating
  /\ isInternalNavigation
  /\ isInitialized
  /\ navigationPromise # NoCall
  /\ \E c \in Slots : calls[c].pc = "navigating" /\ calls[c].path # Undefined

\* ------------------------------------------------------------------ reads
ReadCalls == 2
ReadMoves == 1
ReadIndexes == -1..(MaxHistoryLength + 1)

\* getPathAtIndex(index): this._paths[index]
getPathAtIndex(ps, i) == IF i \in 0..(Len(ps) - 1) THEN ps[i + 1] ELSE Undefined

\* a variant of hasPath that looks at the first entry only
hasPath_First(ps, p) == Len(ps) > 0 /\ ps[1] = p

\* hasPath(path): this._paths.includes(path)
hasPath(ps, p) == Includes(ps, p)

\* a call of hasPath(p); last records the argument and the answer
HasPath(p) ==
  /\ last' = Returned(Step("hasPath", p, "none", "none", <<>>, 0),
                      IF hasPath(paths, p) THEN "true" ELSE "false", <<>>)
  /\ UNCHANGED <<autoInitialize, serviceVars, destroyed, location, pending, calls,
                 callsLeft, movesLeft, tracking, observed, trip>>

\* a call of getPathAtIndex(i); last records the answer in path and the argument in cut
GetPathAtIndex(i) ==
  /\ last' = [Step("getPathAtIndex", getPathAtIndex(paths, i), "none", "none", <<>>, 0)
                EXCEPT !.cut = i]
  /\ UNCHANGED <<autoInitialize, serviceVars, destroyed, location, pending, calls,
                 callsLeft, movesLeft, tracking, observed, trip>>

NextReads ==
  \/ Next
  \/ \E p \in Paths : HasPath(p)
  \/ \E i \in ReadIndexes : GetPathAtIndex(i)

SpecReads == InitWith(ReadCalls, ReadMoves, FALSE) /\ [][NextReads]_vars

\* C25: hasPath(p) is true exactly when getPathAtIndex(i) = p for some i in
\* [0, historyLength); getPathAtIndex(i) is undefined exactly when i is outside that
\* range; neither changes the service's state nor emits anything
C25_ReadsAgreeWithStack ==
  [][/\ last'.op = "hasPath"
        => /\ (last'.result = "true")
              <=> (\E i \in 0..(Len(paths) - 1) :
                     getPathAtIndex(paths, i) = last'.path)
           /\ last'.result \in {"true", "false"}
     /\ last'.op = "getPathAtIndex"
        => /\ (last'.path = Undefined)
              <=> (last'.cut < 0 \/ last'.cut >= Len(paths))
           /\ last'.path # Undefined => last'.path = paths[last'.cut + 1]
     /\ last'.op \in {"hasPath", "getPathAtIndex"}
        => /\ UNCHANGED <<serviceVars, location, pending, calls>>
           /\ last'.emits = 0
           /\ last'.errors = <<>>]_vars

C25_Witness ==
  /\ last.op = "hasPath"
  /\ last.result = "true"
  /\ Len(paths) = 2
  /\ paths[1] # last.path
  /\ paths[2] = last.path

\* the state the constructor leaves, before anything else has happened
JustConstructed == last = NoStep

\* C26: with autoInitialize, construction leaves the stack holding exactly the observed
\* location (defaultRoute when the location is empty) at index 0 with initialized true
\* and without a Navigator call; without it, the stack is empty and initialized false
C26_ConstructionSeedsStack ==
  JustConstructed
  => /\ autoInitialize
        => /\ paths = <<(IF location = NoPath THEN DefaultRoute ELSE location)>>
           /\ currentIndex = 0
           /\ isInitialized
     /\ ~autoInitialize => (paths = <<>> /\ ~isInitialized)
     /\ \A c \in Slots : calls[c].pc = "free"
     /\ pending = <<>>
     /\ navigationPromise = NoCall
     /\ ~isNavigating /\ ~isInternalNavigation

C26_Witness ==
  /\ JustConstructed
  /\ autoInitialize
  /\ location = NoPath
  /\ paths = <<DefaultRoute>>
  /\ isInitialized

\* C27: the step in which an index-navigation to index i enters performNavigation
\* sets both flags, sets currentIndex to i, emits a state with isNavigating true and
\* currentIndex i, and invokes the Navigator with stack[i]; no notification is handled
\* and no other activation moves within that step
C27_StartIsOneStep ==
  [][\A c \in Slots :
       StartsNavigating(c)
       => /\ isNavigating'
          /\ isInternalNavigation'
          /\ currentIndex' = RequestedIndex(c)
          /\ last'.emits = 1
          /\ currentState'.isNavigating
          /\ currentState'.currentIndex = RequestedIndex(c)
          /\ calls'[c].path = getPathAtIndex(paths, RequestedIndex(c))
          /\ navigationPromise' = c
          /\ UNCHANGED <<paths, pending, previousPath, location>>
          /\ \A d \in Slots \ {c} : calls'[d] = calls[d]]_vars

C27_Witness ==
  /\ last.op = "resume"
  /\ last.emits = 1
  /\ isNavigating
  /\ isInternalNavigation
  /\ currentState.isNavigating
  /\ currentState.currentIndex = currentIndex
  /\ Len(paths) = 2
  /\ currentIndex = 1
  /\ \E c \in Slots : calls[c].pc = "navigating" /\ calls[c].path = paths[2]
                        /\ navigationPromise = c

\* ------------------------------------------------- a queued request and a cleared stack
StaleCalls == 3
StaleMoves == 1

\* index-navigation requests beside what can change the stack while one waits: a
\* location change by another agent, clearHistory, initialize
NextStale ==
  \/ NextRace
  \/ ClearHistory
  \/ \E arg \in InitArgs : Initialize(arg)
  \/ \E c \in Slots : InitializeResume(c)

SpecStale == InitWith(StaleCalls, StaleMoves, FALSE) /\ [][NextStale]_vars

\* the step in which an index-navigation finds another in progress and waits
StartsWaiting(c) == calls[c].pc = "free" /\ calls'[c].pc = "waiting"

\* C28: a queued request keeps the index that was computed and validated when it was
\* requested; when it resumes it sets currentIndex to that index and calls the
\* Navigator with the entry then at that position, whatever happened to the stack
C28_QueuedUsesRequestIndex ==
  [][\A c \in Slots :
       /\ StartsWaiting(c)
          => /\ calls'[c].idx = RequestedIndex(c)
             /\ calls'[c].idx \in 0..(Len(paths) - 1)
       /\ (calls[c].pc \in {"waiting", "ready"} /\ calls'[c].pc \in {"waiting", "ready"})
          => calls'[c].idx = calls[c].idx
       /\ (calls[c].pc = "ready" /\ calls'[c].pc # "ready")
          => /\ calls'[c].pc = "navigating"
             /\ currentIndex' = calls[c].idx
             /\ calls'[c].path = getPathAtIndex(paths, calls[c].idx)
             /\ last'.errors = <<>>]_vars

C28_Witness ==
  /\ last.op = "resume"
  /\ paths = <<>>
  /\ currentIndex = 1
  /\ currentState.currentIndex = 1
  /\ \E c \in Slots : calls[c].pc = "navigating" /\ calls[c].path = Undefined

\* the activations whose Navigator call has been issued and has not settled
Outstanding == {c \in Slots : calls[c].pc = "navigating"}

\* C29: isNavigating is true in every state in which the Navigator call of a goBack,
\* goForward, navigateToPath or initialize has been issued and has not yet settled,
\* also when an initialize and an index-navigation overlap or requests are queued
C29_NavigatingWhileOutstanding == Outstanding # {} => isNavigating

\* C30: between steps the isNavigating field of the last emitted NavigationState
\* equals the isNavigating flag, in particular after a failed navigation and after an
\* initialize whose notification never arrives
C30_StateShowsNavigatingFlag == currentState.isNavigating = isNavigating

\* ------------------------------------------------------- a loop of goBack() calls
BackLoopLen == 3
BackLoopCalls == 3

\* the stacks n navigations by another agent leave in a service constructed without
\* autoInitialize whose maxHistoryLength is at least n: the callback ignores a path
\* equal to the previous one, so neighbours differ
BackLoopStacks ==
  {ps \in UNION {[1..n -> Paths] : n \in 1..BackLoopLen} :
     \A i \in 1..(Len(ps) - 1) : ps[i] # ps[i + 1]}

\* the service after those navigations and any number of goBack() calls answered true
\* whose notifications were delivered: nothing in flight, the location and the last
\* notified path are the entry at currentIndex
InitBackLoop ==
  /\ autoInitialize = FALSE
  /\ paths \in BackLoopStacks
  /\ currentIndex \in 0..(Len(paths) - 1)
  /\ location = paths[currentIndex + 1]
  /\ previousPath = paths[currentIndex + 1]
  /\ isInitialized = FALSE
  /\ currentState = MkState(paths, currentIndex, FALSE, location)
  /\ isNavigating = FALSE
  /\ isInternalNavigation = FALSE
  /\ navigationPromise = NoCall
  /\ destroyed = FALSE
  /\ pending = <<>>
  /\ calls = [c \in Slots |-> FreeCall]
  /\ callsLeft = BackLoopCalls
  /\ movesLeft = 0
  /\ last = Step("notify", paths[currentIndex + 1], "none", "none", <<>>, 1)
  /\ tracking = FALSE
  /\ observed = <<>>
  /\ trip = TripIdle

NextBackLoop ==
  \/ GoBack
  \/ Deliver
  \/ \E c \in Slots : WaitResume(c)
  \/ \E c \in Slots, o \in Outcomes : NavigatorSettle(c, o)
  \/ \E c \in Slots : PerformResume(c)

SpecBackLoop == InitBackLoop /\ [][NextBackLoop]_vars

\* a run of goBack() calls, each answered true and its notification delivered before
\* the next call, has just had a call answered
AfterBacks == trip.phase = "mid" /\ pending = <<>>

\* C31: in a run of goBack() calls that each settle successfully, started at index i,
\* every call lowers currentIndex by exactly one; so after k calls currentIndex is
\* i - k, k never exceeds i, canGoBack is false exactly after the i-th call, and then
\* canGoForward holds whenever the stack has more than one entry
C31_BackLoopEndsAfterIndexCalls ==
  AfterBacks
  => /\ currentIndex = trip.from - trip.backs
     /\ trip.backs <= trip.from
     /\ CanGoBack(currentIndex) <=> trip.backs < trip.from
     /\ currentState.canGoBack = CanGoBack(currentIndex)
     /\ ~CanGoBack(currentIndex)
        => (CanGoForward(paths, currentIndex) <=> Len(paths) > 1)

C31_Witness ==
  /\ AfterBacks
  /\ trip.from = 2
  /\ trip.backs = 2
  /\ currentIndex = 0
  /\ ~CanGoBack(currentIndex)
  /\ CanGoForward(paths, currentIndex)
  /\ Len(paths) = 3

\* the step in which reset() is called and issues its Navigator call as activation c
ResetCalled(c) ==
  /\ calls[c].pc = "free"
  /\ calls'[c].kind = "reset"
  /\ calls'[c].pc = "navigating"

\* the step in which the reset() c returns
ResetReturns(c) ==
  /\ calls[c].kind = "reset"
  /\ calls[c].pc = "settled"
  /\ calls'[c].pc = "free"

\* what initialize() with no argument, called in the same state, records of its
\* activation and of its step
AsInitializeCall == [FreeCall EXCEPT !.kind = "initialize", !.pc = "navigating",
                                     !.path = InitialPath(NoPath)]
AsInitializeStep == Step("initialize", InitialPath(NoPath), "none", "none", <<>>, 1)

\* C32: reset() does what initialize() with no argument does in the same state: the
\* same Navigator target (the observed location, else defaultRoute), flags and emitted
\* state at the call; and for the same Navigator outcome the same stack ([that path]
\* on success, untouched on failure), flags, emitted state, error and return value
C32_ResetIsInitialize ==
  [][\A c \in Slots :
       /\ ResetCalled(c)
          => /\ [calls'[c] EXCEPT !.kind = "initialize"] = AsInitializeCall
             /\ [last' EXCEPT !.op = "initialize"] = AsInitializeStep
             /\ calls'[c].path = (IF location = NoPath THEN DefaultRoute ELSE location)
             /\ isNavigating' /\ isInternalNavigation'
             /\ currentState' = MkState(paths, currentIndex, TRUE, location)
             /\ UNCHANGED <<paths, currentIndex, isInitialized, navigationPromise,
                            previousPath, location, pending>>
       /\ ResetReturns(c)
          => /\ ~isNavigating' /\ ~isInternalNavigation'
             /\ last'.result = (IF calls[c].outcome = "true" THEN "true" ELSE "false")
             /\ IF calls[c].outcome = "true"
                THEN /\ paths' = <<calls[c].path>>
                     /\ currentIndex' = 0
                     /\ isInitialized'
                     /\ currentState' = MkState(<<calls[c].path>>, 0, isNavigating, location)
                     /\ last'.errors = <<>>
                ELSE /\ UNCHANGED <<paths, currentIndex, isInitialized, currentState>>
                     /\ last'.errors = <<"INITIALIZATION_FAILED">>
             /\ [last' EXCEPT !.op = "initialize"]
                = Returned(Step("initialize", calls[c].path, "none", "none", last'.errors,
                                IF calls[c].outcome = "true" THEN 1 ELSE 0),
                           last'.result, last'.errors)]_vars

C32_Witness ==
  /\ last.op = "reset"
  /\ last.result = "true"
  /\ last.path = "/a"
  /\ location = "/a"
  /\ paths = <<"/a">>
  /\ currentIndex = 0
  /\ isInitialized
  /\ ~autoInitialize

\* ------------------------------------------------------------- teardown
DestroyCalls == 2
DestroyMoves == 1

NextDestroy ==
  \/ Next
  \/ ngOnDestroy

SpecDestroy == InitWith(DestroyCalls, DestroyMoves, FALSE) /\ [][NextDestroy]_vars

\* the step hands a location notification or a popstate event to the service
NotificationArrives ==
  \/ pending # <<>> /\ pending' = Tail(pending)
  \/ movesLeft' = movesLeft - 1 /\ location' = location /\ pending' = pending

\* C33: after ngOnDestroy a location notification or a popstate event changes neither
\* the stack nor currentIndex, and no NavigationState or NavigationError reaches the
\* subscribers, also for a navigation that was in flight at teardown and for
\* operations called afterwards
C33_NothingAfterDestroy ==
  [][destroyed
     => /\ NotificationArrives => UNCHANGED <<paths, currentIndex, isNavigating,
                                              isInternalNavigation, previousPath>>
        /\ last'.stateOut = 0
        /\ last'.errorOut = <<>>
        /\ destroyed']_vars

C33_Witness ==
  /\ destroyed
  /\ last.op = "goBack"
  /\ last.result = "false"
  /\ last.errors = <<"NAVIGATION_FAILED">>
  /\ last.errorOut = <<>>
  /\ pending = <<>>
  /\ Len(paths) = 2

\* the popstate subscriber has run in the step
PopstateStep == last'.op = "popstate"

\* the forward entries after currentIndex removed
KeptByExternal == IF currentIndex < Len(paths) - 1 THEN SubSeq(paths, 1, currentIndex + 1)
                  ELSE paths

\* C34: a popstate event whose observed location is in the stack sets currentIndex to
\* the lowest position holding it, leaves the stack and the navigation flags unchanged
\* and emits one state; one whose location is absent is handled as an external
\* navigation to it (forward entries removed, the path appended within the bound,
\* currentIndex at it), whatever isInternalNavigation is
C34_PopstateSyncsOrAppends ==
  [][PopstateStep
     => LET p == IF location = NoPath THEN DefaultRoute ELSE location
        IN /\ UNCHANGED <<isNavigating, isInternalNavigation, previousPath, isInitialized,
                          navigationPromise, calls, pending>>
           /\ last'.emits = 1
           /\ currentState'.currentIndex = currentIndex'
           /\ currentState'.paths = paths'
           /\ IF \E i \in 1..Len(paths) : paths[i] = p
              THEN /\ paths' = paths
                   /\ paths[currentIndex' + 1] = p
                   /\ \A j \in 0..(currentIndex' - 1) : paths[j + 1] # p
              ELSE /\ LET grown == Append(KeptByExternal, p)
                          over == Max2(0, Len(grown) - MaxHistoryLength)
                      IN paths' = SubSeq(grown, over + 1, Len(grown))
                   /\ currentIndex' = Len(paths') - 1
                   /\ paths'[currentIndex' + 1] = p
                   /\ paths' = handleExternalNavigation(paths, currentIndex, p).paths]_vars

C34_Witness ==
  /\ last.op = "popstate"
  /\ last.handled = "external"
  /\ isInternalNavigation
  /\ Len(paths) = 2
  /\ currentIndex = 1
  /\ paths[2] = CurrentPathOf(location)
  /\ previousPath # CurrentPathOf(location)

\* a step of goBack, goForward or navigateToPath: the call up to its return or first
\* await, its resumption after a wait, the settling of its Navigator call, its return
IndexOperationStep ==
  \/ last'.op \in IndexKinds
  \/ last'.op = "resume"
  \/ \E c \in Slots : /\ calls[c].kind \in IndexKinds
                       /\ calls[c].pc = "navigating"
                       /\ calls'[c].pc = "settled"

\* the steps that may modify the stack
StackModifier ==
  \/ last'.op = "notify" /\ last'.handled = "external"
  \/ last'.op = "popstate" /\ last'.handled = "external"
  \/ last'.op \in InitKinds /\ last'.result = "true"
  \/ last'.op = "clearHistory"

\* C35: no step of goBack, goForward or navigateToPath changes the stack, whether the
\* request succeeds, fails, is rejected or is queued; the stack changes only in the
\* handling of an external navigation, of a popstate to an unknown path, in a
\* successful initialize/reset and in clearHistory
C35_IndexOperationsKeepStack ==
  [][/\ IndexOperationStep => paths' = paths
     /\ paths' # paths => StackModifier]_vars

C35_Witness ==
  /\ last.op = "goBack"
  /\ last.result = "true"
  /\ last.callErrors = <<"CONCURRENT_NAVIGATION">>
  /\ Len(paths) = 2
  /\ currentIndex = 0

\* C36: the initialized flag is true after construction exactly under autoInitialize,
\* becomes true afterwards only when an initialize/reset returns true, and once true
\* never becomes false, not after clearHistory, a failed initialize/reset or a failed
\* navigation
C36_InitializedMonotonic ==
  /\ isInitialized = autoInitialize
  /\ [][/\ isInitialized => isInitialized'
        /\ (~isInitialized /\ isInitialized')
           => (last'.op \in InitKinds /\ last'.result = "true")]_vars

C36_Witness ==
  /\ ~autoInitialize
  /\ isInitialized
  /\ last.op = "clearHistory"
  /\ paths = <<>>

====
